---- MODULE Spec2Model ----
(***************************************************************************)
(* Model of _sinkhorn_log_domain, the log-domain Sinkhorn solver of        *)
(* sinkhorn-based-log-domain-optimal-transport/                            *)
(* GPUSinkhornBasedLogDomainOptimalTransportHoudini.py (specification      *)
(* Spec), and of the parameter copy tools of copy-parms-to-other-node and  *)
(* copy-parms-in-folder-to-other-node (specification CopySpec).            *)
(*                                                                         *)
(* Number representation.                                                  *)
(*  - Log-domain float64 values (log_kernel, log_u, log_v, log weights)    *)
(*    are integers: logarithms are taken to base 10 and rounded to whole   *)
(*    decades.  A change of base is a rescaling of epsilon by ln 10, so    *)
(*    the kernel of the model is 10^(-C/epsilon).  NaN stands for a        *)
(*    non-finite value (nan, or the -inf that the first logsumexp turns    *)
(*    into nan).                                                           *)
(*  - Linear-domain float64 values (the transport matrix) are the decade   *)
(*    exponent of the value, Zero for 0.0 (underflow) and NaN.             *)
(*  - Marginal errors and the tolerance are integers in units of 1e-13;    *)
(*    Inf stands for cupy.inf and ErrNaN for nan.                          *)
(***************************************************************************)
EXTENDS Integers, Sequences, FiniteSets, TLC

(***************************************************************************)
(* Bounds of the model and menus of inputs                                 *)
(***************************************************************************)
MaxIterationsBound == 34
MinIterationsChoices == {0, 1, 33, 36}
DefaultPts == << <<0>>, <<10>> >>
\* two targets whose coordinates are all away from 0
OffsetPts == << <<15>>, <<5>> >>
PointSets == {<< >>, << <<0>> >>, DefaultPts, OffsetPts}
Epsilons == {-1, 0, 1}
\* 2e-8, in units of 1e-13
Tolerances == {200000}
\* rounding residues, in units of 1e-13
ErrorValues == {0, 200000, 200005, 200010}

(***************************************************************************)
(* Sentinels of the number representation                                  *)
(***************************************************************************)
NaN == 900000
Zero == -900000
Inf == 2000000000
ErrNaN == -2
None == << >>
Unbound == -1

(***************************************************************************)
(* Program constants                                                       *)
(***************************************************************************)
\* log10 of the additive floor 1e-256 of lines 183-184
WeightFloorLog == -256
\* log10 of the additive floor 1e-300 of line 269
RowFloorLog == -300
\* smallest decade exponent that float64 exp() does not flush to 0.0
MinExponent == -323
\* largest decade exponent that float64 exp() does not turn into inf
MaxExponent == 308
\* check period: (iteration & 31) == 0
CheckPeriod == 32
\* stagnation threshold 1e-12 in units of 1e-13
StagnationThreshold == 10
\* the values of converge_type: lines 250, 256 and, when the loop is never
\* broken, the initial value of line 189
ErrorBelowTolerance == "Error < tolerance"
Stagnation == "Stagnation"
MaxIterationsReached == ""

VARIABLES
    pc,              \* "idle", "loop", "finalize", "returned", "raised"
    src_pts, tgt_pts, src_wgts_arg, tgt_wgts_arg,   \* the caller's arrays
    epsilon, min_iterations, max_iterations, tolerance, verbose,
    src_wgts, tgt_wgts,          \* normalized weights, <<w, sum>> pairs
    cost_matrix, log_kernel,
    log_u, log_v, log_src_wgts, log_tgt_wgts,
    previous_error, converge_type, iteration, marginal_error,
    transport_matrix, info, raised,
    passes,          \* how many times lines 224-230 ran
    checked,         \* the checks of lines 237-240, <<iteration, marginal_error>>
    printed          \* what print() wrote, <<iteration, formatted error>>

\* the copy tools of copy-parms-to-other-node and
\* copy-parms-in-folder-to-other-node
VARIABLES
    nodes,           \* node path -> the entries of its parameter interface
    called,          \* the last call: function, node paths, name and label
    before,          \* nodes as they were when the last call was made
    outcome,         \* how the last call ended: "returned" or the exception
    logged,          \* what the last call gave to its logger or raised
    copies,          \* how many calls were made
    repeated         \* the last call repeats the call before it, which succeeded

copy_vars == <<nodes, called, before, outcome, logged, copies, repeated>>

vars == <<pc, src_pts, tgt_pts, src_wgts_arg, tgt_wgts_arg, epsilon,
          min_iterations, max_iterations, tolerance, verbose, src_wgts,
          tgt_wgts, cost_matrix, log_kernel, log_u, log_v, log_src_wgts,
          log_tgt_wgts, previous_error, converge_type, iteration,
          marginal_error, transport_matrix, info, raised, passes, checked,
          printed, nodes, called, before, outcome, logged, copies, repeated>>

inputs == <<src_pts, tgt_pts, src_wgts_arg, tgt_wgts_arg, epsilon,
            min_iterations, max_iterations, tolerance, verbose>>

setup == <<src_wgts, tgt_wgts, cost_matrix, log_kernel, log_src_wgts,
           log_tgt_wgts>>

(***************************************************************************)
(* Array helpers                                                           *)
(***************************************************************************)
RECURSIVE SeqSum(_)
SeqSum(s) == IF s = << >> THEN 0 ELSE Head(s) + SeqSum(Tail(s))

SeqMax(s) == CHOOSE x \in {s[k] : k \in DOMAIN s} :
                 \A y \in {s[k] : k \in DOMAIN s} : y <= x

HasNaN(s) == \E k \in DOMAIN s : s[k] = NaN

Column(mat, j) == [i \in DOMAIN mat |-> mat[i][j]]

\* x + y on log-domain values
Add(x, y) == IF x = NaN \/ y = NaN THEN NaN ELSE x + y
\* x - y on log-domain values
Sub(x, y) == IF x = NaN \/ y = NaN THEN NaN ELSE x - y

(***************************************************************************)
(* Float64 arithmetic in the decade representation                         *)
(***************************************************************************)
\* 1000 * 10^d for d <= 0, rounded down
Exp10Scaled(d) ==
    IF d = 0 THEN 1000
    ELSE IF d = -1 THEN 100
    ELSE IF d = -2 THEN 10
    ELSE IF d = -3 THEN 1
    ELSE 0

\* whole decades of x / 1000, for 1000 <= x < 100000
Log10Floor(x) == IF x >= 10000 THEN 1 ELSE 0

\* _logsumexp along one axis: a_max + log(sum(exp(a - a_max)))
logsumexp(a) ==
    IF HasNaN(a) THEN NaN
    ELSE LET a_max == SeqMax(a)
             shifted == [k \in DOMAIN a |-> Exp10Scaled(a[k] - a_max)]
         IN  a_max + Log10Floor(SeqSum(shifted))

\* cpy.exp of a log-domain value: underflow to 0.0, overflow to inf
Exp(x) ==
    IF x = NaN THEN NaN
    ELSE IF x < MinExponent THEN Zero
    ELSE IF x > MaxExponent THEN NaN
    ELSE x

\* sum of linear-domain values
LinSum(r) ==
    IF HasNaN(r) THEN NaN
    ELSE IF \A k \in DOMAIN r : r[k] = Zero THEN Zero
    ELSE logsumexp(SelectSeq(r, LAMBDA x : x # Zero))

\* x + 10^floor for a linear-domain x
LinAddFloor(x, floor) ==
    IF x = NaN THEN NaN
    ELSE IF x = Zero THEN floor
    ELSE logsumexp(<<x, floor>>)

\* x / d for linear-domain x and d, d # 0.0
LinDiv(x, d) ==
    IF x = NaN \/ d = NaN THEN NaN
    ELSE IF x = Zero THEN Zero
    ELSE IF x - d < MinExponent THEN Zero
    ELSE x - d

\* whole decades of s / w, for 0 < w <= s
RECURSIVE Decades(_, _)
Decades(w, s) == IF 10 * w <= s THEN 1 + Decades(10 * w, s) ELSE 0

\* cpy.log(w + 1e-256) of a normalized weight <<w, sum>>
LogWeight(pair) ==
    IF pair[1] = 0 THEN WeightFloorLog ELSE 0 - Decades(pair[1], pair[2])

(***************************************************************************)
(* Setup, lines 125-189                                                    *)
(***************************************************************************)
num_sources == Len(src_pts)
num_targets == Len(tgt_pts)

\* lines 129-140: uniform weights when None, then w / w.sum(); the common
\* factor 1/num of cpy.ones(num) / num cancels in the normalization
NormalizedWeights(arg, num) ==
    LET w == IF arg = None THEN [i \in 1..num |-> 1] ELSE arg
    IN  [i \in DOMAIN w |-> <<w[i], SeqSum(w)>>]

SumSq(p) == SeqSum([k \in DOMAIN p |-> p[k] * p[k]])
Dot(p, q) == SeqSum([k \in DOMAIN p |-> p[k] * q[k]])

\* line 167: source_squared + target_squared - 2.0 * matmul(src_pts, tgt_pts.T)
CostMatrix(S, T) ==
    [i \in DOMAIN S |-> [j \in DOMAIN T |->
        SumSq(S[i]) + SumSq(T[j]) - 2 * Dot(S[i], T[j])]]

\* -c / float(eps) on float64: a zero divisor gives -inf or nan, never raises
NegDiv(c, eps) ==
    IF eps = 0 THEN NaN
    ELSE IF eps > 0 THEN 0 - (c \div eps)
    ELSE c \div (0 - eps)

\* line 173
LogKernel(C, eps) ==
    [i \in DOMAIN C |-> [j \in DOMAIN C[i] |-> NegDiv(C[i][j], eps)]]

LogWeights(w) == [i \in DOMAIN w |-> LogWeight(w[i])]

(***************************************************************************)
(* One pass of the loop body, lines 224-260                                *)
(***************************************************************************)
\* lines 224-225
UpdateLogU(lk, lv, lsw) ==
    [i \in DOMAIN lsw |->
        Sub(lsw[i], logsumexp([j \in DOMAIN lv |-> Add(lk[i][j], lv[j])]))]

\* mutant of UpdateLogV: the kernel column sums are left out
UpdateLogV_NoKernel(lk, lu, ltw) == ltw

\* mutant of UpdateLogV: the log_u of the previous iteration is read
UpdateLogV_StaleU(lk, lu, ltw) ==
    [j \in DOMAIN ltw |->
        Sub(ltw[j], logsumexp([i \in DOMAIN log_u |-> Add(lk[i][j], log_u[i])]))]

\* lines 228-230
UpdateLogV(lk, lu, ltw) ==
    [j \in DOMAIN ltw |->
        Sub(ltw[j], logsumexp([i \in DOMAIN lu |-> Add(lk[i][j], lu[i])]))]

\* lines 237 and 263: log_u[:, None] + log_kernel + log_v[None, :]
LogTransport(lu, lk, lv) ==
    [i \in DOMAIN lu |-> [j \in DOMAIN lv |->
        Add(Add(lu[i], lk[i][j]), lv[j])]]

\* line 237
LogColSums(lu, lk, lv) ==
    [j \in DOMAIN lv |-> logsumexp(Column(LogTransport(lu, lk, lv), j))]

RECURSIVE Pow10(_)
Pow10(k) == IF k = 0 THEN 1 ELSE 10 * Pow10(k - 1)

\* 10^e in units of 1e-13, capped below Inf
ErrorUnits(e) ==
    IF e < -13 THEN 0
    ELSE IF e > -5 THEN Pow10(9)
    ELSE Pow10(e + 13)

\* line 240: the values cpy.max(cpy.abs(cpy.exp(log_col_sums) - tgt_wgts))
\* can take.  A column sum in another decade than its target weight gives
\* an error of that magnitude; column sums in the decade of their weights
\* leave the float64 rounding residue, which depends on the magnitude of
\* log_kernel and is any of ErrorValues.
MarginalErrors(lu, lk, lv, tw) ==
    LET cols == LogColSums(lu, lk, lv)
        off == {j \in DOMAIN tw : cols[j] # LogWeight(tw[j])}
        gross == {ErrorUnits(IF cols[j] > LogWeight(tw[j])
                             THEN cols[j] ELSE LogWeight(tw[j])) : j \in off}
    IN  IF HasNaN(cols) THEN {ErrNaN}
        ELSE IF \A g \in gross : g = 0 THEN ErrorValues
        ELSE {CHOOSE g \in gross : \A h \in gross : h <= g}

\* mutant of CheckDue: the check of the final iteration is forgotten
CheckDue_NoFinal(it, max_it) == (it % CheckPeriod) = 0

\* line 234: (iteration & 31) == 0 or iteration == max_iterations - 1
CheckDue(it, max_it) == (it % CheckPeriod) = 0 \/ it = max_it - 1

\* mutant of Eligible: min_iterations is ignored
Eligible_Always(it, min_it) == TRUE

\* mutant of Eligible: the iteration index must exceed min_iterations
Eligible_Strict(it, min_it) == it > min_it

\* line 247
Eligible(it, min_it) == it >= min_it

\* mutant of BelowTolerance: <= for <
BelowTolerance_Inclusive(err, tol) == err # ErrNaN /\ err <= tol

\* line 249: a comparison with nan is False
BelowTolerance(err, tol) == err # ErrNaN /\ err < tol

\* mutant of Stagnated: <= for <
Stagnated_Inclusive(prev, err) ==
    /\ prev # Inf /\ prev # ErrNaN /\ err # ErrNaN
    /\ (IF prev >= err THEN prev - err ELSE err - prev) <= StagnationThreshold

\* line 255: abs(previous_error - marginal_error) < 1e-12; inf and nan
\* make the comparison False
Stagnated(prev, err) ==
    /\ prev # Inf /\ prev # ErrNaN /\ err # ErrNaN
    /\ (IF prev >= err THEN prev - err ELSE err - prev) < StagnationThreshold

\* mutant of StopKind: the stagnation test is made first
StopKind_StagnationFirst(it, min_it, err, tol, prev) ==
    IF it >= min_it /\ prev # Inf /\ prev # ErrNaN /\ err # ErrNaN
       /\ (IF prev >= err THEN prev - err ELSE err - prev) < StagnationThreshold
    THEN Stagnation
    ELSE IF it >= min_it /\ err # ErrNaN /\ err < tol
    THEN ErrorBelowTolerance
    ELSE ""

\* the row sums of the plan, in the log domain; the code never forms them
LogRowSums(lu, lk, lv) ==
    [i \in DOMAIN lu |-> logsumexp(LogTransport(lu, lk, lv)[i])]

\* mutant of StopKind: the tolerance test also asks for the source marginal
StopKind_SourceMarginal(it, min_it, err, tol, prev) ==
    IF /\ it >= min_it /\ err # ErrNaN /\ err < tol
       /\ LogRowSums(log_u', log_kernel, log_v') = log_src_wgts
    THEN ErrorBelowTolerance
    ELSE IF it >= min_it /\ prev # Inf /\ prev # ErrNaN /\ err # ErrNaN
            /\ (IF prev >= err THEN prev - err ELSE err - prev) < StagnationThreshold
    THEN Stagnation
    ELSE ""

\* lines 247-257: the converge_type a check breaks the loop with, "" when
\* it does not break
StopKind(it, min_it, err, tol, prev) ==
    IF Eligible(it, min_it) /\ BelowTolerance(err, tol)
    THEN ErrorBelowTolerance
    ELSE IF Eligible(it, min_it) /\ Stagnated(prev, err)
    THEN Stagnation
    ELSE ""

\* the power of ten that holds the digits of x after the first four
RECURSIVE SigScale(_)
SigScale(x) == IF x < 10000 THEN 1 ELSE 10 * SigScale(x \div 10)

\* lines 243-244: f"{float(marginal_error):.3e}", the error rounded to four
\* significant digits
FormatE3(err) ==
    IF err = ErrNaN THEN ErrNaN
    ELSE ((err + SigScale(err) \div 2) \div SigScale(err)) * SigScale(err)

\* mutant of Report: only the checks at or after min_iterations are printed
Report_Eligible(vb, out, it, err) ==
    IF vb /\ it >= min_iterations THEN Append(out, <<it, FormatE3(err)>>) ELSE out

\* lines 242-245: what print() has written after the check of iteration it
Report(vb, out, it, err) ==
    IF vb THEN Append(out, <<it, FormatE3(err)>>) ELSE out

\* range(max_iterations): the value the for statement binds next
NextIteration == IF iteration = Unbound THEN 0 ELSE iteration + 1

(***************************************************************************)
(* Finalization, lines 262-277                                             *)
(***************************************************************************)
\* line 264
ExpMatrix(lt) == [i \in DOMAIN lt |-> [j \in DOMAIN lt[i] |-> Exp(lt[i][j])]]

\* line 269: transport_matrix /= (transport_matrix.sum(axis=1)[:, None] + 1e-300)
RowNormalize(mat) ==
    [i \in DOMAIN mat |-> [j \in DOMAIN mat[i] |->
        LinDiv(mat[i][j], LinAddFloor(LinSum(mat[i]), RowFloorLog))]]

\* lines 263-269
TransportMatrix(lu, lk, lv) == RowNormalize(ExpMatrix(LogTransport(lu, lk, lv)))

\* mutant of Info: the loop index is reported as the count
Info_NoPlusOne(it, eps, ct) ==
    [iterations |-> it, epsilon |-> eps, converge_type |-> ct]

\* lines 271-275
Info(it, eps, ct) == [iterations |-> it + 1, epsilon |-> eps, converge_type |-> ct]

(***************************************************************************)
(* Application of the plan, _zspc_sbld_optimal_transport line 323          *)
(***************************************************************************)
SetMin(X) == CHOOSE x \in X : \A y \in X : x <= y
SetMax(X) == CHOOSE x \in X : \A y \in X : y <= x

\* one entry of cpy.matmul(transport_matrix, tgt_pts): the sum over j of
\* row[j] * T[j][axis], as the interval <<lo, hi>> the float64 sum lies in.
\* A row of zeros gives 0.0; a row whose entries sum to one gives a mean of
\* the targets it puts mass on; a row that sums to less than one gives a
\* value between 0.0 and such a mean.
MatmulEntry(row, T, axis) ==
    LET support == {j \in DOMAIN row : row[j] # Zero}
        coords == {T[j][axis] : j \in support}
    IN  IF HasNaN(row) THEN <<NaN, NaN>>
        ELSE IF support = {} THEN <<0, 0>>
        ELSE IF LinSum(row) = 0 THEN <<SetMin(coords), SetMax(coords)>>
        ELSE <<SetMin(coords \cup {0}), SetMax(coords \cup {0})>>

\* line 323: cpy.matmul(transport_matrix, tgt_pts)
Matmul(mat, T) ==
    [i \in DOMAIN mat |-> [axis \in DOMAIN T[1] |-> MatmulEntry(mat[i], T, axis)]]

(***************************************************************************)
(* The state machine of one call of _sinkhorn_log_domain                   *)
(***************************************************************************)
NoInfo == [iterations |-> 0, epsilon |-> 0, converge_type |-> ""]

\* explicit weight arrays offered for num points: all mass on the first
WeightChoices(num) ==
    {None} \cup (IF num >= 2 THEN {[i \in 1..num |-> IF i = 1 THEN 1 ELSE 0]}
                 ELSE {})

\* no call of the solver has been made
SinkhornInit ==
    /\ pc = "idle"
    /\ src_pts = << >> /\ tgt_pts = << >>
    /\ src_wgts_arg = None /\ tgt_wgts_arg = None
    /\ epsilon = 1 /\ min_iterations = 0 /\ max_iterations = 1
    /\ tolerance = 0 /\ verbose = FALSE
    /\ src_wgts = << >> /\ tgt_wgts = << >>
    /\ cost_matrix = << >> /\ log_kernel = << >>
    /\ log_u = << >> /\ log_v = << >>
    /\ log_src_wgts = << >> /\ log_tgt_wgts = << >>
    /\ previous_error = Inf /\ converge_type = ""
    /\ iteration = Unbound /\ marginal_error = Unbound
    /\ transport_matrix = << >> /\ info = NoInfo /\ raised = ""
    /\ passes = 0 /\ checked = << >> /\ printed = << >>

NoCall == [function |-> "", src_node_name |-> "", dst_node_name |-> "",
           src_name |-> "", src_label |-> ""]

\* no node is looked at
NoNodes ==
    /\ nodes = << >> /\ before = << >>
    /\ called = NoCall /\ outcome = "" /\ logged = << >> /\ copies = 0
    /\ repeated = FALSE

Init == SinkhornInit /\ NoNodes

\* the call and lines 125-189: no argument is validated
Call(S, T, sw, tw, eps, min_it, max_it, tol, vb) ==
    /\ pc = "idle"
    /\ UNCHANGED copy_vars
    /\ src_pts' = S /\ tgt_pts' = T
    /\ src_wgts_arg' = sw /\ tgt_wgts_arg' = tw
    /\ epsilon' = eps /\ min_iterations' = min_it /\ max_iterations' = max_it
    /\ tolerance' = tol /\ verbose' = vb
    /\ src_wgts' = NormalizedWeights(sw, Len(S))
    /\ tgt_wgts' = NormalizedWeights(tw, Len(T))
    /\ cost_matrix' = CostMatrix(S, T)
    /\ log_kernel' = LogKernel(CostMatrix(S, T), eps)
    /\ log_u' = [i \in 1..Len(S) |-> 0]
    /\ log_v' = [j \in 1..Len(T) |-> 0]
    /\ log_src_wgts' = LogWeights(NormalizedWeights(sw, Len(S)))
    /\ log_tgt_wgts' = LogWeights(NormalizedWeights(tw, Len(T)))
    /\ previous_error' = Inf
    /\ converge_type' = MaxIterationsReached
    /\ pc' = IF max_it >= 1 THEN "loop" ELSE "finalize"
    /\ UNCHANGED <<iteration, marginal_error, transport_matrix, info, raised,
                   passes, checked, printed>>

\* lines 224-230 at an iteration where line 234 is False
IterateScale ==
    /\ pc = "loop"
    /\ UNCHANGED copy_vars
    /\ num_sources > 0 /\ num_targets > 0
    /\ ~CheckDue(NextIteration, max_iterations)
    /\ iteration' = NextIteration
    /\ log_u' = UpdateLogU(log_kernel, log_v, log_src_wgts)
    /\ log_v' = UpdateLogV(log_kernel, log_u', log_tgt_wgts)
    /\ passes' = passes + 1
    /\ UNCHANGED <<pc, inputs, setup, previous_error, converge_type,
                   marginal_error, transport_matrix, info, raised, checked,
                   printed>>

\* mutant of IterateCheck: log_v is added to log_kernel in place
IterateCheck_InPlace ==
    /\ pc = "loop"
    /\ UNCHANGED copy_vars
    /\ num_sources > 0 /\ num_targets > 0
    /\ CheckDue(NextIteration, max_iterations)
    /\ iteration' = NextIteration
    /\ log_u' = UpdateLogU(log_kernel, log_v, log_src_wgts)
    /\ log_v' = UpdateLogV(log_kernel, log_u', log_tgt_wgts)
    /\ marginal_error' \in MarginalErrors(log_u', log_kernel, log_v', tgt_wgts)
    /\ passes' = passes + 1
    /\ checked' = Append(checked, <<iteration', marginal_error'>>)
    /\ printed' = Report(verbose, printed, iteration', marginal_error')
    /\ LET stop == StopKind(iteration', min_iterations, marginal_error',
                             tolerance, previous_error)
       IN  IF stop # ""
           THEN /\ converge_type' = stop
                /\ pc' = "finalize"
                /\ UNCHANGED previous_error
           ELSE /\ previous_error' = marginal_error'
                /\ pc' = IF iteration' = max_iterations - 1
                         THEN "finalize" ELSE "loop"
                /\ UNCHANGED converge_type
    /\ log_kernel' = [i \in DOMAIN log_kernel |-> [j \in DOMAIN log_v |->
                          Add(log_kernel[i][j], log_v'[j])]]
    /\ UNCHANGED <<inputs, src_wgts, tgt_wgts, cost_matrix, log_src_wgts,
                   log_tgt_wgts, transport_matrix, info, raised>>

\* mutant of IterateCheck: the error of a check before min_iterations is
\* not remembered
IterateCheck_ForgetEarly ==
    /\ pc = "loop"
    /\ UNCHANGED copy_vars
    /\ num_sources > 0 /\ num_targets > 0
    /\ CheckDue(NextIteration, max_iterations)
    /\ iteration' = NextIteration
    /\ log_u' = UpdateLogU(log_kernel, log_v, log_src_wgts)
    /\ log_v' = UpdateLogV(log_kernel, log_u', log_tgt_wgts)
    /\ marginal_error' \in MarginalErrors(log_u', log_kernel, log_v', tgt_wgts)
    /\ passes' = passes + 1
    /\ checked' = Append(checked, <<iteration', marginal_error'>>)
    /\ printed' = Report(verbose, printed, iteration', marginal_error')
    /\ LET stop == StopKind(iteration', min_iterations, marginal_error',
                             tolerance, previous_error)
       IN  IF stop # ""
           THEN /\ converge_type' = stop
                /\ pc' = "finalize"
                /\ UNCHANGED previous_error
           ELSE /\ previous_error' = IF iteration' >= min_iterations
                                     THEN marginal_error' ELSE previous_error
                /\ pc' = IF iteration' = max_iterations - 1
                         THEN "finalize" ELSE "loop"
                /\ UNCHANGED converge_type
    /\ UNCHANGED <<inputs, setup, transport_matrix, info, raised>>

\* lines 224-260 at an iteration where line 234 is True
IterateCheck ==
    /\ pc = "loop"
    /\ UNCHANGED copy_vars
    /\ num_sources > 0 /\ num_targets > 0
    /\ CheckDue(NextIteration, max_iterations)
    /\ iteration' = NextIteration
    /\ log_u' = UpdateLogU(log_kernel, log_v, log_src_wgts)
    /\ log_v' = UpdateLogV(log_kernel, log_u', log_tgt_wgts)
    /\ marginal_error' \in MarginalErrors(log_u', log_kernel, log_v', tgt_wgts)
    /\ passes' = passes + 1
    /\ checked' = Append(checked, <<iteration', marginal_error'>>)
    /\ printed' = Report(verbose, printed, iteration', marginal_error')
    /\ LET stop == StopKind(iteration', min_iterations, marginal_error',
                             tolerance, previous_error)
       IN  IF stop # ""
           THEN /\ converge_type' = stop
                /\ pc' = "finalize"
                /\ UNCHANGED previous_error
           ELSE /\ previous_error' = marginal_error'
                /\ pc' = IF iteration' = max_iterations - 1
                         THEN "finalize" ELSE "loop"
                /\ UNCHANGED converge_type
    /\ UNCHANGED <<inputs, setup, transport_matrix, info, raised>>

\* lines 224-228 with an empty point set: the maximum of _logsumexp over
\* an axis of length 0 raises ValueError
IterateRaises ==
    /\ pc = "loop"
    /\ UNCHANGED copy_vars
    /\ (num_sources = 0 \/ num_targets = 0)
    /\ iteration' = NextIteration
    /\ pc' = "raised"
    /\ raised' = "ValueError"
    /\ UNCHANGED <<inputs, setup, log_u, log_v, previous_error, converge_type,
                   marginal_error, transport_matrix, info, passes, checked,
                   printed>>

\* lines 262-277 after at least one pass of the loop
FinalizeReturn ==
    /\ pc = "finalize"
    /\ UNCHANGED copy_vars
    /\ iteration # Unbound
    /\ transport_matrix' = TransportMatrix(log_u, log_kernel, log_v)
    /\ info' = Info(iteration, epsilon, converge_type)
    /\ pc' = "returned"
    /\ UNCHANGED <<inputs, setup, log_u, log_v, previous_error, converge_type,
                   iteration, marginal_error, raised, passes, checked,
                   printed>>

\* lines 262-272 when range(max_iterations) was empty: line 272 reads the
\* unbound local iteration
FinalizeRaises ==
    /\ pc = "finalize"
    /\ UNCHANGED copy_vars
    /\ iteration = Unbound
    /\ transport_matrix' = TransportMatrix(log_u, log_kernel, log_v)
    /\ pc' = "raised"
    /\ raised' = "UnboundLocalError"
    /\ UNCHANGED <<inputs, setup, log_u, log_v, previous_error, converge_type,
                   iteration, marginal_error, info, passes, checked,
                   printed>>

\* every pair of iteration limits, on two well separated points
ControlConfigs ==
    [S : {DefaultPts}, T : {DefaultPts}, sw : {None}, tw : {None},
     eps : {1}, min_it : MinIterationsChoices,
     max_it : 0..MaxIterationsBound, tol : Tolerances, vb : {FALSE}]

\* every point set, weight array and epsilon, on short runs
NumericConfigs ==
    UNION {[S : {S}, T : {T}, sw : WeightChoices(Len(S)),
            tw : WeightChoices(Len(T)), eps : Epsilons, min_it : {0, 2},
            max_it : {0, 1, 2}, tol : Tolerances, vb : {FALSE}] :
           S \in PointSets, T \in PointSets}

\* runs with verbose=True
VerboseConfigs ==
    [S : {DefaultPts}, T : {DefaultPts}, sw : {None}, tw : {None},
     eps : {1}, min_it : {0, 33}, max_it : {1, MaxIterationsBound},
     tol : Tolerances, vb : {TRUE}]

Configs == ControlConfigs \cup NumericConfigs \cup VerboseConfigs

Next ==
    \/ \E c \in Configs :
          Call(c.S, c.T, c.sw, c.tw, c.eps, c.min_it, c.max_it, c.tol, c.vb)
    \/ IterateScale
    \/ IterateCheck
    \/ IterateRaises
    \/ FinalizeReturn
    \/ FinalizeRaises

Spec == Init /\ [][Next]_vars

(***************************************************************************)
(* The copy tools: _copy_parms_to_other_node of the copyParmsToOtherNode   *)
(* package, and the shelf scripts _ZspcCopyParmsToOtherNode and            *)
(* _ZspcCopyParmsInFolderToOtherNode.                                      *)
(*                                                                         *)
(* A parameter template is a record of its name, its label, whether it is  *)
(* a hou.FolderParmTemplate, its folder type and its child templates; the  *)
(* parameter interface of a node is the sequence of its top-level entries. *)
(* The names of the templates of one node are distinct: hou refuses an     *)
(* interface with two parameters of one name.                              *)
(***************************************************************************)
MaxCopies == 2

\* src_label=None
NoLabel == "None"

ParmTemplate(name, label) ==
    [name |-> name, label |-> label, is_folder |-> FALSE, folder_type |-> "",
     parmTemplates |-> << >>]

FolderParmTemplate(name, label, folder_type, children) ==
    [name |-> name, label |-> label, is_folder |-> TRUE,
     folder_type |-> folder_type, parmTemplates |-> children]

\* the generator of lines 13-27, as the list it yields: a template, then the
\* templates inside it when it is a folder, then the entries after it
RECURSIVE _walk_parm_templates(_)
_walk_parm_templates(entries) ==
    IF entries = << >> THEN << >>
    ELSE LET template == Head(entries)
         IN  <<template>>
             \o (IF template.is_folder
                 THEN _walk_parm_templates(template.parmTemplates) ELSE << >>)
             \o _walk_parm_templates(Tail(entries))

\* the index of the first TRUE of a sequence of test results, 0 when none is
FirstIndex(passes_test) ==
    IF \E k \in DOMAIN passes_test : passes_test[k]
    THEN CHOOSE k \in DOMAIN passes_test :
             passes_test[k] /\ \A m \in 1..(k - 1) : ~passes_test[m]
    ELSE 0

TemplateNames(entries) ==
    {_walk_parm_templates(entries)[k].name :
         k \in DOMAIN _walk_parm_templates(entries)}

\* mutant of RemoveTemplate: nothing is removed
RemoveTemplate_Keep(entries, name) == entries

\* hou.ParmTemplateGroup.remove: the group without the first template of
\* that name, at any depth, and without what that template holds
RECURSIVE RemoveTemplate(_, _)
RemoveTemplate(entries, name) ==
    IF entries = << >> THEN << >>
    ELSE LET template == Head(entries)
         IN  IF template.name = name THEN Tail(entries)
             ELSE IF name \in TemplateNames(template.parmTemplates)
             THEN <<[template EXCEPT
                        !.parmTemplates = RemoveTemplate(@, name)]>>
                  \o Tail(entries)
             ELSE <<template>> \o RemoveTemplate(Tail(entries), name)

\* hou.Node.setParmTemplateGroup raises hou.OperationFailed for a group in
\* which two parameters have one name
SetParmTemplateGroupFails(entries) ==
    Cardinality(TemplateNames(entries)) # Len(_walk_parm_templates(entries))

\* hou.FolderParmTemplate(name, label, folder_type=hou.folderType.Tabs) with
\* the child templates of src_parm added in their order
NewTabsFolder(src_parm) ==
    FolderParmTemplate(src_parm.name, src_parm.label, "Tabs",
                       src_parm.parmTemplates)

LogRecord(level, message) == [level |-> level, message |-> message]
NotFoundMessage == "Folder/parm not found in source node's parameters."
ReplacedMessage == "Existing parameter/folder has been replaced with copied parameter/folder."
FailedMessage == "Failed to copy - conflicting names."
SuccessMessage == "Successfully copied from source to destination."

sinkhorn_vars == <<pc, inputs, setup, log_u, log_v, previous_error,
                   converge_type, iteration, marginal_error, transport_matrix,
                   info, raised, passes, checked, printed>>

\* the bookkeeping of a call of one of the three functions
Called(function, src_node_name, dst_node_name, src_name, src_label) ==
    /\ copies < MaxCopies
    /\ copies' = copies + 1
    /\ before' = nodes
    /\ called' = [function |-> function, src_node_name |-> src_node_name,
                  dst_node_name |-> dst_node_name, src_name |-> src_name,
                  src_label |-> src_label]
    /\ repeated' = (/\ called = called'
                    /\ outcome = "returned"
                    /\ logged # << >>
                    /\ logged[Len(logged)] = LogRecord("info", SuccessMessage))
    /\ UNCHANGED sinkhorn_vars

\* core/CopyParmsToOtherNode.py lines 29-122
_copy_parms_to_other_node(src_node_name, dst_node_name, src_name, src_label) ==
    LET src_ptg == nodes[src_node_name]
        dst_ptg == nodes[dst_node_name]
        src_all_parm_templates == _walk_parm_templates(src_ptg)
        found == FirstIndex([k \in DOMAIN src_all_parm_templates |->
                    LET template == src_all_parm_templates[k]
                    IN  /\ template.name = src_name
                        /\ (src_label = NoLabel \/ template.label = src_label)])
    IN  /\ Called("_copy_parms_to_other_node", src_node_name, dst_node_name,
                  src_name, src_label)
        /\ IF found = 0
           THEN \* lines 70-77: the error is logged, then None.name() raises
                /\ logged' = <<LogRecord("error", NotFoundMessage)>>
                /\ outcome' = "AttributeError"
                /\ UNCHANGED nodes
           ELSE LET src_parm == src_all_parm_templates[found]
                    parm_to_remove ==
                        FirstIndex([k \in DOMAIN _walk_parm_templates(dst_ptg) |->
                            _walk_parm_templates(dst_ptg)[k].name = src_parm.name])
                    removed == IF parm_to_remove # 0
                               THEN RemoveTemplate(dst_ptg, src_parm.name)
                               ELSE dst_ptg
                    replaced == IF parm_to_remove # 0
                                THEN <<LogRecord("debug", "parm_to_remove"),
                                       LogRecord("warning", ReplacedMessage)>>
                                ELSE << >>
                    appended == Append(removed,
                                       IF src_parm.is_folder
                                       THEN NewTabsFolder(src_parm)
                                       ELSE src_parm)
                IN  /\ outcome' = "returned"
                    /\ IF SetParmTemplateGroupFails(appended)
                       THEN /\ logged' = Append(replaced,
                                                LogRecord("error", FailedMessage))
                            /\ UNCHANGED nodes
                       ELSE /\ logged' = Append(replaced,
                                                LogRecord("info", SuccessMessage))
                            /\ nodes' = [nodes EXCEPT ![dst_node_name] = appended]

\* CopyParmsToOtherNode.py lines 52-145
_ZspcCopyParmsToOtherNode(src_node_name, dst_node_name, src_name, src_label) ==
    LET src_ptg == nodes[src_node_name]
        dst_ptg == nodes[dst_node_name]
        src_all_parm_templates == _walk_parm_templates(src_ptg)
        found == FirstIndex([k \in DOMAIN src_all_parm_templates |->
                    LET template == src_all_parm_templates[k]
                    IN  /\ template.name = src_name
                        /\ (src_label = NoLabel \/ template.label = src_label)])
    IN  /\ Called("_ZspcCopyParmsToOtherNode", src_node_name, dst_node_name,
                  src_name, src_label)
        /\ IF found = 0
           THEN \* lines 93-98
                /\ logged' = <<LogRecord("raise", NotFoundMessage)>>
                /\ outcome' = "RuntimeError"
                /\ UNCHANGED nodes
           ELSE LET src_parm == src_all_parm_templates[found]
                    parm_to_remove ==
                        FirstIndex([k \in DOMAIN _walk_parm_templates(dst_ptg) |->
                            _walk_parm_templates(dst_ptg)[k].name = src_parm.name])
                    removed == IF parm_to_remove # 0
                               THEN RemoveTemplate(dst_ptg, src_parm.name)
                               ELSE dst_ptg
                    replaced == IF parm_to_remove # 0
                                THEN <<LogRecord("debug", "parm_to_remove"),
                                       LogRecord("warning", ReplacedMessage)>>
                                ELSE << >>
                    appended == Append(removed,
                                       IF src_parm.is_folder
                                       THEN NewTabsFolder(src_parm)
                                       ELSE src_parm)
                IN  /\ outcome' = "returned"
                    /\ IF SetParmTemplateGroupFails(appended)
                       THEN /\ logged' = Append(replaced,
                                                LogRecord("error", FailedMessage))
                            /\ UNCHANGED nodes
                       ELSE /\ logged' = Append(replaced,
                                                LogRecord("info", SuccessMessage))
                            /\ nodes' = [nodes EXCEPT ![dst_node_name] = appended]

\* CopyParmsInFolderToOtherNode.py lines 34-101
_ZspcCopyParmsInFolderToOtherNode(src_node_name, dst_node_name, src_folder_name, src_folder_label) ==
    LET src_ptg == nodes[src_node_name]
        dst_ptg == nodes[dst_node_name]
        found == FirstIndex([k \in DOMAIN src_ptg |->
                    /\ src_ptg[k].is_folder
                    /\ src_ptg[k].name = src_folder_name
                    /\ (src_folder_label = NoLabel
                        \/ src_ptg[k].label = src_folder_label)])
    IN  /\ Called("_ZspcCopyParmsInFolderToOtherNode", src_node_name,
                  dst_node_name, src_folder_name, src_folder_label)
        /\ IF found = 0
           THEN \* line 73: None.name() raises, nothing was logged
                /\ logged' = << >>
                /\ outcome' = "AttributeError"
                /\ UNCHANGED nodes
           ELSE LET src_folder == src_ptg[found]
                    existing_dst_folder ==
                        FirstIndex([k \in DOMAIN dst_ptg |->
                            dst_ptg[k].is_folder /\ dst_ptg[k].name = src_folder.name])
                    removed == IF existing_dst_folder # 0
                               THEN RemoveTemplate(dst_ptg, src_folder.name)
                               ELSE dst_ptg
                    appended == Append(removed, NewTabsFolder(src_folder))
                IN  IF SetParmTemplateGroupFails(appended)
                    THEN \* line 99 is not in a try statement
                         /\ logged' = << >>
                         /\ outcome' = "OperationFailed"
                         /\ UNCHANGED nodes
                    ELSE /\ logged' = <<LogRecord("info", SuccessMessage)>>
                         /\ outcome' = "returned"
                         /\ nodes' = [nodes EXCEPT ![dst_node_name] = appended]

\* the node paths, and the interfaces the two nodes start with
SourcePath == "/obj/geo1/source"
DestinationPath == "/obj/geo1/destination"
NodePaths == {SourcePath, DestinationPath}

SourceInterfaces ==
    { << ParmTemplate("a", "A"),
         FolderParmTemplate("f", "F", "Simple",
                            << ParmTemplate("b", "B"), ParmTemplate("c", "C") >>) >>,
      << FolderParmTemplate("g", "G", "Collapsible",
             << ParmTemplate("a", "A"),
                FolderParmTemplate("f", "F", "Simple", << ParmTemplate("b", "B") >>) >>) >> }

DestinationInterfaces ==
    { << >>,
      << ParmTemplate("a", "X"), ParmTemplate("d", "D") >>,
      << FolderParmTemplate("h", "H", "Simple", << ParmTemplate("a", "Y") >>),
         ParmTemplate("b", "B") >>,
      << FolderParmTemplate("f", "E", "Simple", << ParmTemplate("e", "E") >>),
         ParmTemplate("d", "D") >> }

SourceNames == {"a", "f", "zz"}
SourceLabels == {NoLabel, "F"}

CopyInit ==
    /\ SinkhornInit
    /\ \E s \in SourceInterfaces, d \in DestinationInterfaces :
           nodes = [path \in NodePaths |-> IF path = SourcePath THEN s ELSE d]
    /\ before = nodes
    /\ called = NoCall /\ outcome = "" /\ logged = << >> /\ copies = 0
    /\ repeated = FALSE

CopyNext ==
    \E dst \in NodePaths, name \in SourceNames, label \in SourceLabels :
        \/ _copy_parms_to_other_node(SourcePath, dst, name, label)
        \/ _ZspcCopyParmsToOtherNode(SourcePath, dst, name, label)
        \/ _ZspcCopyParmsInFolderToOtherNode(SourcePath, dst, name, label)

CopySpec == CopyInit /\ [][CopyNext]_vars

(***************************************************************************)
(* Properties                                                              *)
(***************************************************************************)
\* the arguments a call was made with are outside the documented domain
InvalidConfiguration ==
    epsilon <= 0 \/ max_iterations < 1 \/ min_iterations > max_iterations

EmptyInput == num_sources = 0 \/ num_targets = 0

\* check number k of the run met a stop condition of lines 247-257, read
\* from the recorded errors: the error before check k is that of check k-1
CheckIndex(k) == checked[k][1]
CheckError(k) == checked[k][2]
MetTolerance(k) ==
    /\ CheckIndex(k) >= min_iterations
    /\ CheckError(k) # ErrNaN /\ CheckError(k) < tolerance
MetStagnation(k) ==
    /\ CheckIndex(k) >= min_iterations
    /\ k > 1
    /\ CheckError(k) # ErrNaN /\ CheckError(k - 1) # ErrNaN
    /\ CheckError(k) - CheckError(k - 1) < 10
    /\ CheckError(k - 1) - CheckError(k) < 10

\* C1: a call with epsilon <= 0, max_iterations < 1 or min_iterations >
\* max_iterations is rejected with InvalidConfiguration before any array is
\* allocated and before any iteration runs, and returns nothing: once such a
\* call has been made the solver is in no other state than that rejection.
C1_InvalidConfigurationRejected ==
    (pc # "idle" /\ InvalidConfiguration) =>
        (pc = "raised" /\ raised = "InvalidConfiguration" /\ passes = 0)

\* C2: a call with n = 0 or m = 0 is rejected with EmptyInput before the
\* cost matrix or any other matrix is built, and returns no plan: once such
\* a call has been made the solver is in no other state than that rejection.
C2_EmptyInputRejected ==
    (pc # "idle" /\ EmptyInput) => (pc = "raised" /\ raised = "EmptyInput")

\* C3: every completed solve returns a convergence kind among "Error <
\* tolerance", "Stagnation" and "" (the code's value for MaxIterationsReached);
\* it is "" exactly when all max_iterations passes ran and no check met the
\* tolerance or the stagnation condition at an index >= min_iterations, and
\* then the plan is returned with iterations = max_iterations.
C3_ConvergenceKind ==
    pc = "returned" =>
        /\ info.converge_type \in {"Error < tolerance", "Stagnation", ""}
        /\ (info.converge_type = "") <=>
               (/\ passes = max_iterations
                /\ \A k \in DOMAIN checked :
                       ~MetTolerance(k) /\ ~MetStagnation(k))
        /\ (info.converge_type = "") =>
               (/\ info.iterations = max_iterations
                /\ Len(transport_matrix) = num_sources)

\* C3 witness: a run of 34 passes with three checks returns "" and a plan
C3_Witness ==
    /\ pc = "returned" /\ info.converge_type = ""
    /\ max_iterations = 34 /\ info.iterations = 34
    /\ Len(checked) = 3 /\ Len(transport_matrix) = 2

\* C4: a check is performed at iteration index i iff i is a multiple of 32
\* or i = max_iterations - 1 (each once, in order), and the loop stops early
\* only at such an index.
C4_CheckSchedule ==
    (pc \in {"loop", "finalize", "returned"} /\ iteration # Unbound) =>
        /\ {CheckIndex(k) : k \in DOMAIN checked} =
               {i \in 0..iteration : i % 32 = 0 \/ i = max_iterations - 1}
        /\ \A k \in DOMAIN checked : k > 1 => CheckIndex(k - 1) < CheckIndex(k)
        /\ (pc # "loop" /\ iteration # max_iterations - 1) =>
               iteration % 32 = 0

\* C4 witness: 34 passes were made, checked at 0, 32 and 33 only
C4_Witness ==
    /\ pc = "returned" /\ passes = 34 /\ max_iterations = 34
    /\ Len(checked) = 3
    /\ CheckIndex(1) = 0 /\ CheckIndex(2) = 32 /\ CheckIndex(3) = 33

\* C5: a check at an index i >= min_iterations whose marginal error is below
\* the tolerance stops the loop at that iteration with "Error < tolerance",
\* whether or not the stagnation condition holds too, and the solve then
\* reports iterations = i + 1.
C5_ToleranceStop ==
    \A k \in DOMAIN checked :
        MetTolerance(k) =>
            /\ k = Len(checked)
            /\ pc \in {"finalize", "returned"}
            /\ converge_type = "Error < tolerance"
            /\ iteration = CheckIndex(k)
            /\ pc = "returned" =>
                   /\ info.converge_type = "Error < tolerance"
                   /\ info.iterations = CheckIndex(k) + 1

\* C5 witness: the check at 32 met both the tolerance and the stagnation
\* condition and the solve returned "Error < tolerance" after 33 passes
C5_Witness ==
    /\ pc = "returned" /\ Len(checked) = 2
    /\ MetTolerance(2) /\ MetStagnation(2)
    /\ info.converge_type = "Error < tolerance" /\ info.iterations = 33

\* the float64 test abs(prev - err) < 1e-12 on the error representation
AbsDiffBelowThreshold(prev, err) ==
    /\ prev # ErrNaN /\ err # ErrNaN
    /\ prev - err < 10 /\ err - prev < 10

\* C6: at a check at an index i >= min_iterations whose marginal error is
\* not below the tolerance, the loop stops with "Stagnation" (and the solve
\* reports iterations = i + 1) if the remembered previous error differs from
\* the current one by less than 1e-12; otherwise it does not stop there: it
\* goes on to the next iteration, if there is one, with the current error
\* remembered.
C6_StagnationStop ==
    [][/\ (/\ Len(checked') = Len(checked) + 1
           /\ iteration' >= min_iterations
           /\ ~(marginal_error' # ErrNaN /\ marginal_error' < tolerance))
          => IF AbsDiffBelowThreshold(previous_error, marginal_error')
             THEN /\ pc' = "finalize"
                  /\ converge_type' = "Stagnation"
             ELSE /\ converge_type' = ""
                  /\ previous_error' = marginal_error'
                  /\ pc' = IF iteration' < max_iterations - 1
                           THEN "loop" ELSE "finalize"
       /\ (pc' = "returned" /\ converge_type = "Stagnation")
          => /\ info'.converge_type = "Stagnation"
             /\ info'.iterations = checked[Len(checked)][1] + 1
      ]_vars

\* C6 witness: the second check stagnated 5e-13 away from the first and the
\* solve returned "Stagnation" after 33 passes
C6_Witness ==
    /\ pc = "returned" /\ info.converge_type = "Stagnation"
    /\ info.iterations = 33 /\ Len(checked) = 2
    /\ CheckError(1) = 200000 /\ CheckError(2) = 200005

\* C7: a solve that returns "Error < tolerance" or "Stagnation" reports
\* iterations >= min_iterations + 1, and iterations - 1 is a multiple of 32
\* or equals max_iterations - 1.
C7_NoStopBeforeMinIterations ==
    (pc = "returned" /\ info.converge_type \in {"Error < tolerance", "Stagnation"})
        => /\ info.iterations >= min_iterations + 1
           /\ \/ (info.iterations - 1) % 32 = 0
              \/ info.iterations - 1 = max_iterations - 1

\* C7 witness: with min_iterations = 33 the checks at 0 and 32 were below
\* the tolerance and the solve stopped at the check of index 33 only
C7_Witness ==
    /\ pc = "returned" /\ info.converge_type = "Error < tolerance"
    /\ min_iterations = 33 /\ info.iterations = 34
    /\ Len(checked) = 3 /\ CheckError(1) < tolerance /\ CheckError(2) < tolerance

\* C9: with max_iterations = 1 and min_iterations = 0 one pass runs and one
\* check is made, at iteration 0; the kind returned is what that check
\* determines and iterations = 1.
C9_SingleIteration ==
    (pc = "returned" /\ max_iterations = 1 /\ min_iterations = 0) =>
        /\ passes = 1
        /\ Len(checked) = 1 /\ CheckIndex(1) = 0
        /\ info.iterations = 1
        /\ info.converge_type =
               (IF CheckError(1) # ErrNaN /\ CheckError(1) < tolerance
                THEN "Error < tolerance"
                ELSE IF AbsDiffBelowThreshold(Inf, CheckError(1))
                THEN "Stagnation"
                ELSE "")

\* C9 witness: the single check was below the tolerance
C9_Witness ==
    /\ pc = "returned" /\ max_iterations = 1 /\ min_iterations = 0
    /\ CheckError(1) = 0 /\ info.converge_type = "Error < tolerance"

\* C8: every call with max_iterations >= 1 leaves the loop: in the loop a
\* step is always possible, each step makes one more pass of the scaling
\* updates or raises, and the passes made stay below max_iterations; a solve
\* that returns made between 1 and max_iterations passes, and its iterations
\* field is that number of passes.
C8_LoopTerminates ==
    /\ [](pc = "loop" =>
            /\ passes < max_iterations
            /\ ENABLED (IterateScale \/ IterateCheck \/ IterateRaises))
    /\ [][pc = "loop" => (passes' = passes + 1 \/ pc' = "raised")]_vars
    /\ [](pc = "returned" =>
            /\ 1 <= passes /\ passes <= max_iterations
            /\ info.iterations = passes)

\* C8 witness: a solve returned before max_iterations, after 33 of 34 passes
C8_Witness ==
    /\ pc = "returned" /\ max_iterations = 34
    /\ passes = 33 /\ info.iterations = 33

\* the arguments of a call are in the documented domain
ValidCall ==
    /\ ~InvalidConfiguration /\ ~EmptyInput
    /\ \A i \in DOMAIN src_wgts : src_wgts[i][1] >= 0 /\ src_wgts[i][2] > 0
    /\ \A j \in DOMAIN tgt_wgts : tgt_wgts[j][1] >= 0 /\ tgt_wgts[j][2] > 0

\* C10: for n, m >= 1 and valid parameters every row of the returned
\* transport_matrix sums to 1 and has no negative or undefined entry, on
\* every return path.
C10_RowsSumToOne ==
    (pc = "returned" /\ ValidCall) =>
        \A i \in 1..num_sources :
            /\ ~HasNaN(transport_matrix[i])
            /\ LinSum(transport_matrix[i]) = 0

\* C11: the matrix product of the returned transport_matrix with the target
\* points gives, for every source point and every axis, a value between the
\* least and the greatest coordinate of the target points on that axis.
C11_MappedPointsInTargetRange ==
    (pc = "returned" /\ ValidCall) =>
        \A i \in 1..num_sources : \A axis \in DOMAIN tgt_pts[1] :
            LET entry == Matmul(transport_matrix, tgt_pts)[i][axis]
                coords == {tgt_pts[j][axis] : j \in 1..num_targets}
            IN  /\ entry[1] # NaN
                /\ SetMin(coords) <= entry[1]
                /\ entry[2] <= SetMax(coords)

\* the checks of the run that met a stop condition
StoppingChecks == {k \in DOMAIN checked : MetTolerance(k) \/ MetStagnation(k)}

\* the source (row) marginal of the current scalings is off by a decade or more
SourceMarginalOff ==
    LogRowSums(log_u, log_kernel, log_v) # log_src_wgts

\* C12: the iteration at which the loop stops and the convergence kind are a
\* function of min_iterations, max_iterations, tolerance and the target
\* marginal errors of the checks alone: the loop stops at the first check
\* whose error (with that of the check before it) meets a stop condition,
\* with the kind of that condition, and runs to max_iterations - 1 with kind
\* "" when there is none, whatever the sources and the row sums are.
C12_StopIgnoresSourceMarginal ==
    (pc \in {"finalize", "returned"} /\ iteration # Unbound) =>
        IF StoppingChecks = {}
        THEN iteration = max_iterations - 1 /\ converge_type = ""
        ELSE LET k == CHOOSE x \in StoppingChecks : \A y \in StoppingChecks : x <= y
             IN  /\ k = Len(checked)
                 /\ iteration = CheckIndex(k)
                 /\ converge_type = (IF MetTolerance(k) THEN "Error < tolerance"
                                     ELSE "Stagnation")

\* C12 witness: a solve stopped on the tolerance while its source marginal
\* was off
C12_Witness ==
    /\ pc = "returned" /\ converge_type = "Error < tolerance"
    /\ ~InvalidConfiguration
    /\ SourceMarginalOff

\* C13: with verbose on, every performed check writes exactly one report,
\* holding the iteration index of the check and its marginal error in the
\* four-digit format of the print, whether the check is before
\* min_iterations, stops the loop or neither; a step without a check writes
\* nothing; the reports are in increasing iteration order, one per check.
C13_OneReportPerCheck ==
    /\ [][verbose' =>
            IF Len(checked') = Len(checked) + 1
            THEN printed' = Append(printed,
                                   <<iteration', FormatE3(marginal_error')>>)
            ELSE printed' = printed]_vars
    /\ [](verbose =>
            /\ Len(printed) = Len(checked)
            /\ \A k \in DOMAIN printed :
                   /\ printed[k][1] = CheckIndex(k)
                   /\ k > 1 => printed[k - 1][1] < printed[k][1])

\* C13 witness: a verbose solve with min_iterations = 33 reported the checks
\* at 0 and 32, before min_iterations, and the check at 33 that stopped it
C13_Witness ==
    /\ pc = "returned" /\ verbose /\ min_iterations = 33
    /\ converge_type = "Error < tolerance"
    /\ Len(printed) = 3
    /\ printed[1][1] = 0 /\ printed[2][1] = 32 /\ printed[3][1] = 33
    /\ printed[3][2] = FormatE3(marginal_error)

\* log weight minus the log of the kernel line scaled by the other vector
Rescaled(log_wgt, kernel_line, other) ==
    Sub(log_wgt, logsumexp([k \in DOMAIN other |-> Add(kernel_line[k], other[k])]))

C17_IterationFrame ==
    [][pc = "loop" =>
          /\ UNCHANGED <<log_kernel, cost_matrix>>
          /\ UNCHANGED <<src_wgts, tgt_wgts, log_src_wgts, log_tgt_wgts>>
          /\ UNCHANGED <<src_pts, tgt_pts, src_wgts_arg, tgt_wgts_arg>>
          /\ UNCHANGED <<epsilon, min_iterations, max_iterations, tolerance,
                         verbose, transport_matrix, info>>
      ]_vars

\* C17 witness: after 33 passes and two checks the loop goes on with the
\* kernel and the weights that the setup made
C17_Witness ==
    /\ pc = "loop" /\ passes = 33 /\ Len(checked) = 2
    /\ previous_error # Inf
    /\ log_kernel = LogKernel(CostMatrix(src_pts, tgt_pts), epsilon)
    /\ src_wgts = NormalizedWeights(src_wgts_arg, num_sources)
    /\ tgt_wgts = NormalizedWeights(tgt_wgts_arg, num_targets)

PositiveTargetWeights == \A j \in DOMAIN tgt_wgts : tgt_wgts[j][1] > 0

\* the checks of the run made at an index >= min_iterations
EligibleChecks == {k \in DOMAIN checked : CheckIndex(k) >= min_iterations}

C19_PreviousError ==
    /\ [](pc \in {"loop", "finalize", "returned"} =>
            LET n == Len(checked)
                kept == IF converge_type # "" THEN n - 1 ELSE n
            IN  /\ previous_error = (IF kept = 0 THEN Inf ELSE CheckError(kept))
                /\ (converge_type = "Stagnation") => n >= 2)
    /\ [][(converge_type' = "Stagnation" /\ converge_type = "") =>
            /\ checked # << >>
            /\ AbsDiffBelowThreshold(checked[Len(checked)][2], marginal_error')
         ]_vars

\* C19 witness: with min_iterations = 33 the check at 33, the first at an
\* index >= min_iterations, stagnated against the error of the check at 32
C19_Witness ==
    /\ pc = "returned" /\ converge_type = "Stagnation"
    /\ min_iterations = 33 /\ Len(checked) = 3
    /\ CheckIndex(2) = 32 /\ CheckIndex(3) = 33
    /\ previous_error = CheckError(2)
    /\ AbsDiffBelowThreshold(CheckError(2), CheckError(3))

\* the last call of a copy function reported success
CopySucceeded ==
    /\ outcome = "returned"
    /\ logged # << >>
    /\ logged[Len(logged)] = LogRecord("info", SuccessMessage)

\* the templates of the source node, as the last call found it, that have
\* the name and, when one was given, the label of the call, in pre-order
SourceMatches ==
    SelectSeq(_walk_parm_templates(before[called.src_node_name]),
              LAMBDA t : /\ t.name = called.src_name
                         /\ (called.src_label = NoLabel \/ t.label = called.src_label))

\* C14: after a successful copy the last top-level entry of the destination
\* has the name and label of the first source template in pre-order that has
\* the name (and label) asked for; it is that template when it is not a
\* folder, and otherwise a Tabs folder holding the direct children of the
\* source folder in their order; the interface of the source node is as it
\* was before the copy.
C14_CopyAppendsSourceTemplate ==
    CopySucceeded =>
        /\ SourceMatches # << >>
        /\ LET source == Head(SourceMatches)
               dst == nodes[called.dst_node_name]
               last == dst[Len(dst)]
           IN  /\ dst # << >>
               /\ last.name = source.name /\ last.label = source.label
               /\ IF source.is_folder
                  THEN /\ last.is_folder /\ last.folder_type = "Tabs"
                       /\ last.parmTemplates = source.parmTemplates
                  ELSE last = source
        /\ nodes[called.src_node_name] = before[called.src_node_name]

\* the messages the last call logged or raised
Reported(message) == \E k \in DOMAIN logged : logged[k].message = message

\* C15: when no template of the source node has the name (and, when one is
\* given, the label) of the call, the call reports the 'not found' error,
\* leaves the interface of the destination node as it was and reports no
\* success.
C15_NotFoundIsReported ==
    (copies > 0 /\ SourceMatches = << >>) =>
        /\ Reported(NotFoundMessage)
        /\ nodes[called.dst_node_name] = before[called.dst_node_name]
        /\ ~Reported(SuccessMessage)

\* the last call chose a source template and went on to the destination
SourceChosen == outcome \in {"returned", "OperationFailed"}

\* the templates of that name in the entries, in pre-order
Named(entries, name) ==
    SelectSeq(_walk_parm_templates(entries), LAMBDA t : t.name = name)

\* C20: when the destination holds, at any depth, a template of the name of
\* the copied template, the copy removes the first such template in
\* pre-order before it appends and reports the replacement as a warning;
\* after a successful copy into a destination that held at most one template
\* of that name, the destination holds exactly one, the appended last entry.
C20_ExistingTemplateReplaced ==
    (copies > 0 /\ SourceChosen
     /\ Named(before[called.dst_node_name], called.src_name) # << >>) =>
        LET old == before[called.dst_node_name]
            dst == nodes[called.dst_node_name]
        IN  /\ \E k \in DOMAIN logged : logged[k].level = "warning"
            /\ CopySucceeded =>
                   /\ SubSeq(dst, 1, Len(dst) - 1) =
                          RemoveTemplate(old, called.src_name)
                   /\ (Len(Named(old, called.src_name)) <= 1) =>
                          Named(dst, called.src_name) = <<dst[Len(dst)]>>

\* C21: a call that repeats, with the same function and arguments, the call
\* just before it, which reported success, reports success too and leaves
\* the interface of the destination node as the first call left it.
C21_CopyIdempotent ==
    repeated =>
        /\ CopySucceeded
        /\ nodes[called.dst_node_name] = before[called.dst_node_name]

\* C21 witness: the folder f was copied twice to the other node, whose
\* interface ends with the Tabs folder f after both calls
C21_Witness ==
    /\ repeated /\ CopySucceeded /\ copies = 2
    /\ called.src_name = "f"
    /\ called.src_node_name # called.dst_node_name
    /\ LET dst == nodes[called.dst_node_name]
       IN  /\ dst = before[called.dst_node_name]
           /\ dst[Len(dst)].name = "f"
           /\ dst[Len(dst)].folder_type = "Tabs"

====
